---- MODULE Spec2Model ----
(***************************************************************************)
(* A model of tgbox.api.utils.search_generator: the asynchronous generator *)
(* that pulls file records from a source (it_messages, or lb.files()) and  *)
(* yields the ones that match a SearchFilter (in_filters / ex_filters).    *)
(*                                                                         *)
(* Strings are sequences of one-character strings.  A pattern is a string; *)
(* in regex mode "." matches any character and an unbalanced "(" makes the *)
(* pattern invalid (re.error), in substring mode both are literals.        *)
(***************************************************************************)
EXTENDS Integers, Sequences, FiniteSets, TLC

\* sf           the SearchFilter: [in_filters, ex_filters], one value per key
\* it_messages  the async generator handed in, or none (given = FALSE)
\* lb           the DecryptedLocalBox handed in, or none (given = FALSE)
\* pc           where the generator is: "created" (no code has run), "running"
\*              (an __anext__ is being served), "yielded" (suspended at the
\*              yield), "done" (StopAsyncIteration) or "raised"
\* iter_from    the records of the source being iterated
\* pulled       how many records "async for" has taken from iter_from
\* yielded      the records handed to the consumer, in order
\* err          the exception that ended the generator, or "none"
VARIABLES sf, it_messages, lb, pc, iter_from, pulled, yielded, err

vars == <<sf, it_messages, lb, pc, iter_from, pulled, yielded, err>>

\* ------------------------------------------------------------------ bounds

\* Longest source sequence.
MaxSrc == 2
\* Numeric record fields (id, upload_time, size) and bounds range over 0..MaxVal.
MaxVal == 1
\* Longest list of one filter key.
MaxList == 2

\* ------------------------------------------------------------- matching

\* re.search raises re.error on a pattern that does not compile.
ValidRegex(p) == \A j \in 1..Len(p) : p[j] # "("

\* regex.search / re.search: a match anywhere in the string (not a full match).
re_search(p, s) ==
    IF ~ValidRegex(p) THEN "raise"
    ELSE IF \E i \in 0..(Len(s) - Len(p)) :
               \A j \in 1..Len(p) : p[j] = "." \/ p[j] = s[i + j]
         THEN "match" ELSE "nomatch"

\* lambda p,s: p in s
lambda_in(p, s) ==
    IF \E i \in 0..(Len(s) - Len(p)) : \A j \in 1..Len(p) : p[j] = s[i + j]
    THEN "match" ELSE "nomatch"

\* in_func = re_search if sf.in_filters['re'] else lambda p,s: p in s
in_func(re, p, s) == IF re THEN re_search(p, s) ELSE lambda_in(p, s)

\* Python's truth value of filter['exported'] (unset / False are falsy).
Truthy(x) == x = "true"

\* A for/else loop over per-entry outcomes: the first entry that matches (or
\* raises) ends the loop; "nomatch" is the loop running to its else clause.
RECURSIVE FirstOutcome(_, _)
FirstOutcome(rs, i) ==
    IF i > Len(rs) THEN "nomatch"
    ELSE IF rs[i] # "nomatch" THEN rs[i]
    ELSE FirstOutcome(rs, i + 1)

\* What one block of the loop body did: hit = it set yield_result[indx] = False,
\* ctl = how it left ("next" block, "break" of the include/exclude loop, "raise").
Did(hit, ctl) == [hit |-> hit, ctl |-> ctl]
Pass == Did(FALSE, "next")

\* file_size: *RemoteBoxFile has file_size, *LocalBoxFile has size.  (The
\* string attributes are held as strings here, so str(file.file_path) is the
\* attribute itself.)
file_size(file) == IF file.kind = "remote" THEN file.file_size ELSE file.size

\* ---------------------------------------------------- the blocks, in order

exported_block(filter, file, indx) ==
    IF Truthy(filter.exported)
    THEN IF file.exported # Truthy(filter.exported)
         THEN (IF indx = 0 THEN Did(TRUE, "break") ELSE Pass)
         ELSE (IF indx = 1 THEN Did(TRUE, "break") ELSE Pass)
    ELSE Pass

\* ForElse with the break of a match leaving the include/exclude loop.
ForElse_outer_break(rs, indx) ==
    LET o == FirstOutcome(rs, 1) IN
    IF o = "raise" THEN Did(FALSE, "raise")
    ELSE IF o = "match" THEN Did(indx = 1, "break")
    ELSE IF Len(rs) > 0 /\ indx = 0 THEN Did(TRUE, "break")
    ELSE Pass

\* The shape shared by mime, file_path, file_name, file_salt, id and verbyte:
\*   for e in filter[key]: if <match>: (if indx == 1: flag = False); break
\*   else: if filter[key]: if indx == 0: flag = False; break (outer)
ForElse(rs, indx) ==
    LET o == FirstOutcome(rs, 1) IN
    IF o = "raise" THEN Did(FALSE, "raise")
    ELSE IF o = "match" THEN Did(indx = 1, "next")
    ELSE IF Len(rs) > 0 /\ indx = 0 THEN Did(TRUE, "break")
    ELSE Pass

mime_block(re, filter, file, indx) ==
    ForElse([i \in 1..Len(filter.mime) |-> in_func(re, filter.mime[i], file.mime)], indx)

\* MinRange reading the first bound, filter[key][0].
MinRange_first(bounds, value, indx) ==
    IF Len(bounds) > 0
    THEN IF value < bounds[1]
         THEN (IF indx = 0 THEN Did(TRUE, "break") ELSE Pass)
         ELSE (IF indx = 1 THEN Did(TRUE, "break") ELSE Pass)
    ELSE Pass

\* The shape shared by the min_* keys: only filter[key][-1] is read.
MinRange(bounds, value, indx) ==
    IF Len(bounds) > 0
    THEN IF value < bounds[Len(bounds)]
         THEN (IF indx = 0 THEN Did(TRUE, "break") ELSE Pass)
         ELSE (IF indx = 1 THEN Did(TRUE, "break") ELSE Pass)
    ELSE Pass

\* The shape shared by the max_* keys.
MaxRange(bounds, value, indx) ==
    IF Len(bounds) > 0
    THEN IF value > bounds[Len(bounds)]
         THEN (IF indx = 0 THEN Did(TRUE, "break") ELSE Pass)
         ELSE (IF indx = 1 THEN Did(TRUE, "break") ELSE Pass)
    ELSE Pass

min_time_block(filter, file, indx) == MinRange(filter.min_time, file.upload_time, indx)
max_time_block(filter, file, indx) == MaxRange(filter.max_time, file.upload_time, indx)
min_size_block(filter, file, indx) == MinRange(filter.min_size, file_size(file), indx)
max_size_block(filter, file, indx) == MaxRange(filter.max_size, file_size(file), indx)
min_id_block(filter, file, indx) == MinRange(filter.min_id, file.id, indx)
max_id_block(filter, file, indx) == MaxRange(filter.max_id, file.id, indx)

id_block(filter, file, indx) ==
    ForElse([i \in 1..Len(filter.id) |->
                IF file.id = filter.id[i] THEN "match" ELSE "nomatch"], indx)

\* A dict is the sequence of its <<key, value>> items, keys distinct.
HasKey(d, k) == \E j \in 1..Len(d) : d[j][1] = k
Get(d, k) == d[CHOOSE j \in 1..Len(d) : d[j][1] = k][2]

\* One cattr of filter['cattrs'] (a dict, here its items in order) against the
\* file: the inner "for k,v in cattr.items()" with its break.
cattr_outcome(re, cattr, file) ==
    FirstOutcome([j \in 1..Len(cattr) |->
                    IF HasKey(file.cattrs, cattr[j][1])
                    THEN in_func(re, cattr[j][2], Get(file.cattrs, cattr[j][1]))
                    ELSE "nomatch"], 1)

\* The "for cattr in filter['cattrs']" loop.  A matching cattr sets the exclude
\* flag and the loop goes on to the next cattr; a cattr that does not match
\* sets the include flag and breaks THIS loop (the break sits in the else
\* clause of the inner for, inside the cattr loop), so the blocks below run.
RECURSIVE cattrs_loop(_, _, _, _, _, _)
cattrs_loop(re, cattrs, file, indx, i, hit) ==
    IF i > Len(cattrs) THEN Did(hit, "next")
    ELSE LET o == cattr_outcome(re, cattrs[i], file) IN
         IF o = "raise" THEN Did(hit, "raise")
         ELSE IF o = "match"
              THEN cattrs_loop(re, cattrs, file, indx, i + 1, hit \/ indx = 1)
         ELSE IF indx = 0 THEN Did(TRUE, "next")
         ELSE cattrs_loop(re, cattrs, file, indx, i + 1, hit)

\* cattrs_block without the hasattr(file, '_cattrs') test.
cattrs_block_nocheck(re, filter, file, indx) ==
    cattrs_loop(re, filter.cattrs, file, indx, 1, FALSE)

cattrs_block(re, filter, file, indx) ==
    IF file.has_cattrs
    THEN cattrs_loop(re, filter.cattrs, file, indx, 1, FALSE)
    ELSE Pass

file_path_block(re, filter, file, indx) ==
    ForElse([i \in 1..Len(filter.file_path) |->
                in_func(re, filter.file_path[i], file.file_path)], indx)

file_name_block(re, filter, file, indx) ==
    ForElse([i \in 1..Len(filter.file_name) |->
                in_func(re, filter.file_name[i], file.file_name)], indx)

file_salt_block(re, filter, file, indx) ==
    ForElse([i \in 1..Len(filter.file_salt) |->
                in_func(re, filter.file_salt[i], file.file_salt)], indx)

verbyte_block(filter, file, indx) ==
    ForElse([i \in 1..Len(filter.verbyte) |->
                IF filter.verbyte[i] = file.verbyte THEN "match" ELSE "nomatch"], indx)

NBlocks == 14

Block(n, re, filter, file, indx) ==
    CASE n = 1 -> exported_block(filter, file, indx)
      [] n = 2 -> mime_block(re, filter, file, indx)
      [] n = 3 -> min_time_block(filter, file, indx)
      [] n = 4 -> max_time_block(filter, file, indx)
      [] n = 5 -> min_size_block(filter, file, indx)
      [] n = 6 -> max_size_block(filter, file, indx)
      [] n = 7 -> min_id_block(filter, file, indx)
      [] n = 8 -> max_id_block(filter, file, indx)
      [] n = 9 -> id_block(filter, file, indx)
      [] n = 10 -> cattrs_block(re, filter, file, indx)
      [] n = 11 -> file_path_block(re, filter, file, indx)
      [] n = 12 -> file_name_block(re, filter, file, indx)
      [] n = 13 -> file_salt_block(re, filter, file, indx)
      [] OTHER -> verbyte_block(filter, file, indx)

\* The body of "for indx, filter in enumerate(...)" for one filter: the blocks
\* in order until one breaks or raises.  flag is yield_result[indx].
RECURSIVE loop_body(_, _, _, _, _, _)
loop_body(n, re, filter, file, indx, flag) ==
    IF n > NBlocks THEN [flag |-> flag, ctl |-> "next"]
    ELSE LET d == Block(n, re, filter, file, indx)
             f == flag /\ ~d.hit
         IN IF d.ctl = "next" THEN loop_body(n + 1, re, filter, file, indx, f)
            ELSE [flag |-> f, ctl |-> d.ctl]

\* yield_result after the include/exclude loop (raised: in_func raised).  A
\* break in the include pass leaves the whole loop: the exclude pass never runs.
yield_result(s, file) ==
    LET re == s.in_filters.re
        r0 == loop_body(1, re, s.in_filters, file, 0, TRUE)
    IN IF r0.ctl = "raise" THEN [raised |-> TRUE, flags |-> <<r0.flag, TRUE>>]
       ELSE IF r0.ctl = "break" THEN [raised |-> FALSE, flags |-> <<r0.flag, TRUE>>]
       ELSE LET r1 == loop_body(1, re, s.ex_filters, file, 1, TRUE)
            IN [raised |-> r1.ctl = "raise", flags |-> <<r0.flag, r1.flag>>]

\* One iteration of "async for file in iter_from": "skip" (neither a
\* *RemoteBoxFile nor a *LocalBoxFile), "yield", "drop" or "raise".
Verdict(s, file) ==
    IF file.kind \notin {"remote", "local"} THEN "skip"
    ELSE LET y == yield_result(s, file) IN
         IF y.raised THEN "raise"
         ELSE IF y.flags[1] /\ y.flags[2] THEN "yield" ELSE "drop"

\* ------------------------------------------------------- the SearchFilter

RangeKeys == {"min_time", "max_time", "min_size", "max_size", "min_id", "max_id"}
StrKeys == {"mime", "file_path", "file_name", "file_salt"}
EqKeys == {"id", "verbyte"}
Keys == {"exported", "cattrs"} \cup RangeKeys \cup StrKeys \cup EqKeys

\* Slot <<0, key>> is in_filters[key], slot <<1, key>> is ex_filters[key].
Slots == {0, 1} \X Keys

EmptyFilter ==
    [exported |-> "unset", mime |-> <<>>, min_time |-> <<>>, max_time |-> <<>>,
     min_size |-> <<>>, max_size |-> <<>>, min_id |-> <<>>, max_id |-> <<>>,
     id |-> <<>>, cattrs |-> <<>>, file_path |-> <<>>, file_name |-> <<>>,
     file_salt |-> <<>>, verbyte |-> <<>>, re |-> FALSE]

\* The filter with nothing set, in substring (re = FALSE) or regex mode.
NoFilter(re) == [in_filters |-> [EmptyFilter EXCEPT !.re = re], ex_filters |-> EmptyFilter]

Side(s, indx) == IF indx = 0 THEN s.in_filters ELSE s.ex_filters

Put(s, slot, val) ==
    IF slot[1] = 0 THEN [s EXCEPT !.in_filters[slot[2]] = val]
    ELSE [s EXCEPT !.ex_filters[slot[2]] = val]

Unset(key) == IF key = "exported" THEN "unset" ELSE <<>>

IsSet(s, slot) == Side(s, slot[1])[slot[2]] # Unset(slot[2])

ActiveSlots(s) == {slot \in Slots : IsSet(s, slot)}

\* s with every slot but `slot` emptied (the mode kept).
Only(s, slot) == Put(NoFilter(s.in_filters.re), slot, Side(s, slot[1])[slot[2]])

\* ---------------------------------------------------------- input domains

Lists(S) == UNION {[1..n -> S] : n \in 1..MaxList}

Patterns == {<<"b">>, <<".">>, <<"(">>}
Strs == {<<"a">>, <<"a", "b">>}

\* The cattr dicts a filter may hold, and the cattrs a file may hold.
FilterCattrs == {<< <<"k1", <<"b">> >> >>, << <<"k1", <<"a">> >> >>,
                 << <<"k2", <<"(">> >>, <<"k1", <<".">> >> >>}
FileCattrs == {<< <<"k1", <<"a", "b">> >> >>, << <<"k1", <<"a">> >> >>,
               << <<"k2", <<"a">> >> >>, <<>>}

SlotVals(key) ==
    CASE key = "exported" -> {"true", "false"}
      [] key \in RangeKeys \cup EqKeys -> Lists(0..MaxVal)
      [] key \in StrKeys -> Lists(Patterns)
      [] OTHER -> Lists(FilterCattrs)

\* One value or two per key, for the filters that set two slots.
ProbeVals(key) ==
    CASE key = "exported" -> {"true"}
      [] key \in {"max_time", "max_size", "max_id"} -> {<<0>>}
      [] key \in RangeKeys \cup EqKeys -> {<<1>>}
      [] key \in StrKeys -> {<< <<"b">> >>, << <<"(">> >>}
      [] OTHER -> {<< << <<"k1", <<"b">> >> >> >>}

\* The modes a key is tried in alone: both for the keys matched by in_func.
ModesOf(key) == IF key \in StrKeys \cup {"cattrs"} THEN BOOLEAN ELSE {FALSE}

\* The filters with one slot set, and those with two (probe values).
Singles ==
    UNION {{Put(NoFilter(re), slot, v) : v \in SlotVals(slot[2]), re \in ModesOf(slot[2])} :
              slot \in Slots}

Probes ==
    UNION {{Put(NoFilter(re), slot, v) : v \in ProbeVals(slot[2])} :
              re \in BOOLEAN, slot \in Slots}

Pairs ==
    UNION {{Put(p, slot, v) : v \in ProbeVals(slot[2])} :
              p \in Probes, slot \in Slots}

\* The filters of the longer sources.
FewFilters ==
    UNION {{NoFilter(re),
            Put(NoFilter(re), <<0, "min_id">>, <<1>>),
            Put(NoFilter(re), <<0, "max_id">>, <<0>>),
            Put(NoFilter(re), <<1, "exported">>, "true"),
            Put(NoFilter(re), <<0, "mime">>, << <<"b">>, <<"(">> >>),
            Put(NoFilter(re), <<1, "file_name">>, << <<".">> >>),
            Put(NoFilter(re), <<0, "cattrs">>, << << <<"k1", <<"b">> >> >> >>),
            Put(Put(NoFilter(re), <<0, "min_time">>, <<1>>), <<1, "exported">>, "true")} :
              re \in BOOLEAN}

\* The attribute a file variant does not have.
NoAttr == -1

RemoteFile ==
    [kind |-> "remote", has_cattrs |-> TRUE, exported |-> FALSE, id |-> 1,
     upload_time |-> 1, file_size |-> 1, size |-> NoAttr, mime |-> <<"a", "b">>,
     file_path |-> <<"a">>, file_name |-> <<"a", "b">>, file_salt |-> <<"a">>,
     verbyte |-> 1, cattrs |-> << <<"k1", <<"a", "b">> >> >>]

LocalFile ==
    [kind |-> "local", has_cattrs |-> TRUE, exported |-> TRUE, id |-> 0,
     upload_time |-> 0, file_size |-> NoAttr, size |-> 0, mime |-> <<"a">>,
     file_path |-> <<"a", "b">>, file_name |-> <<"a">>, file_salt |-> <<"a", "b">>,
     verbyte |-> 0, cattrs |-> << <<"k1", <<"a">> >> >>]

\* An object that is neither a *RemoteBoxFile nor a *LocalBoxFile.
OtherOf(f) == [f EXCEPT !.kind = "other", !.file_size = NoAttr, !.size = NoAttr]

\* A file without the _cattrs attribute (an Encrypted*BoxFile).
NoCattrsOf(f) == [f EXCEPT !.has_cattrs = FALSE, !.cattrs = <<>>]

WithSize(f, n) ==
    IF f.kind = "remote" THEN [f EXCEPT !.file_size = n] ELSE [f EXCEPT !.size = n]

\* f and the files that differ from it in one attribute.
Vary(f) ==
    {f, OtherOf(f), NoCattrsOf(f), [f EXCEPT !.exported = ~@]}
    \cup {[f EXCEPT !.id = n] : n \in 0..MaxVal}
    \cup {[f EXCEPT !.upload_time = n] : n \in 0..MaxVal}
    \cup {WithSize(f, n) : n \in 0..MaxVal}
    \cup {[f EXCEPT !.verbyte = n] : n \in 0..MaxVal}
    \cup {[f EXCEPT !.mime = x] : x \in Strs}
    \cup {[f EXCEPT !.file_path = x] : x \in Strs}
    \cup {[f EXCEPT !.file_name = x] : x \in Strs}
    \cup {[f EXCEPT !.file_salt = x] : x \in Strs}
    \cup {[f EXCEPT !.cattrs = d] : d \in FileCattrs}

Files == Vary(RemoteFile) \cup Vary(LocalFile)

\* The files tried against the filters with two slots set.
PairFiles == Vary(RemoteFile) \cup {LocalFile, NoCattrsOf(LocalFile)}

\* The files of the longer sources.
FewFiles == {RemoteFile, LocalFile, OtherOf(RemoteFile), NoCattrsOf(LocalFile),
             [LocalFile EXCEPT !.id = 1, !.exported = FALSE]}

Seqs(S, n) == UNION {[1..k -> S] : k \in 0..n}

\* An async generator over items, or a box whose catalog is items; or none.
Given(items) == [given |-> TRUE, items |-> items]
Absent == [given |-> FALSE, items |-> <<>>]

IsLocal(f) == f.kind = "local"

\* ----------------------------------------------------------------- steps

\* DecryptedLocalBox.files(min_id, max_id): the box's files with an id in
\* the window, in catalog order (a bound of None is no bound).
Files_of(box, min_id, max_id) ==
    LET In(f) == /\ (min_id.given => f.id >= min_id.val)
                 /\ (max_id.given => f.id <= max_id.val)
    IN SelectSeq(box.items, In)

\* filter[key][-1] if filter[key] else None
LastOrNone(l) == IF Len(l) > 0 THEN [given |-> TRUE, val |-> l[Len(l)]]
                 ELSE [given |-> FALSE, val |-> 0]

\* bool(iter_from): an async generator object defines neither __bool__ nor
\* __len__, so it is true whatever it will produce.
IsTrue(items) == TRUE

\* if not iter_from: raise ValueError(...)
Checked(items) ==
    IF ~IsTrue(items) THEN [error |-> "ValueError", iter_from |-> <<>>]
    ELSE [error |-> "none", iter_from |-> items]

\* Setup compiling the patterns of the filter before the loop.
Setup_validating ==
    IF sf.in_filters.re /\
       \E k \in {"mime", "file_path", "file_name", "file_salt"} :
          \E i \in 1..Len(sf.in_filters[k]) : ~ValidRegex(sf.in_filters[k][i])
    THEN [error |-> "re.error", iter_from |-> <<>>]
    ELSE IF it_messages.given THEN Checked(it_messages.items)
    ELSE IF ~lb.given THEN [error |-> "AttributeError", iter_from |-> <<>>]
    ELSE Checked(Files_of(lb, LastOrNone(sf.in_filters.min_id),
                              LastOrNone(sf.in_filters.max_id)))

\* The code before the loop: which source is iterated, or the exception.
\* With it_messages None the else branch calls lb.files, which on lb = None
\* is an AttributeError, before the ValueError test is reached.
Setup ==
    IF it_messages.given THEN Checked(it_messages.items)
    ELSE IF ~lb.given THEN [error |-> "AttributeError", iter_from |-> <<>>]
    ELSE Checked(Files_of(lb, LastOrNone(sf.in_filters.min_id),
                              LastOrNone(sf.in_filters.max_id)))

\* Emit putting the file in front.
Emit_prepend(out, file) == <<file>> \o out

\* yield file
Emit(out, file) == Append(out, file)

Init ==
    /\ pc = "created"
    /\ iter_from = <<>>
    /\ pulled = 0
    /\ yielded = <<>>
    /\ err = "none"
    /\ \/ /\ sf \in Singles
          /\ \E f \in Files : it_messages = Given(<<f>>)
          /\ lb = Absent
       \/ /\ sf \in Pairs
          /\ \E f \in PairFiles : it_messages = Given(<<f>>)
          /\ lb = Absent
       \/ /\ sf \in FewFilters
          /\ \E s \in Seqs(FewFiles, MaxSrc), mode \in {"it", "lb", "both", "none"} :
                /\ it_messages = IF mode \in {"it", "both"} THEN Given(s) ELSE Absent
                /\ lb = IF mode \in {"lb", "both"} THEN Given(SelectSeq(s, IsLocal))
                        ELSE Absent

\* The consumer asks for the next item (__anext__): the first time the code
\* before the loop runs, later the generator resumes after its yield.
Anext ==
    /\ pc \in {"created", "yielded"}
    /\ IF pc = "created"
       THEN LET s == Setup IN
            /\ iter_from' = s.iter_from
            /\ err' = s.error
            /\ pc' = IF s.error = "none" THEN "running" ELSE "raised"
       ELSE /\ pc' = "running"
            /\ UNCHANGED <<iter_from, err>>
    /\ UNCHANGED <<sf, it_messages, lb, pulled, yielded>>

\* Iterate fetching the record after the one it yields.
Iterate_prefetch ==
    /\ pc = "running"
    /\ IF pulled = Len(iter_from)
       THEN /\ pc' = "done"
            /\ UNCHANGED <<pulled, yielded, err>>
       ELSE LET file == iter_from[pulled + 1]
                v == Verdict(sf, file)
            IN /\ pulled' = IF v = "yield" /\ pulled + 1 < Len(iter_from)
                            THEN pulled + 2 ELSE pulled + 1
               /\ yielded' = IF v = "yield" THEN Append(yielded, file) ELSE yielded
               /\ pc' = CASE v = "yield" -> "yielded"
                          [] v = "raise" -> "raised"
                          [] OTHER -> "running"
               /\ err' = IF v = "raise" THEN "re.error" ELSE err
    /\ UNCHANGED <<sf, it_messages, lb, iter_from>>

\* One turn of "async for file in iter_from": the source is asked for its next
\* record; the record is skipped, dropped, yielded, or its matching raises.
Iterate ==
    /\ pc = "running"
    /\ IF pulled = Len(iter_from)
       THEN /\ pc' = "done"
            /\ UNCHANGED <<pulled, yielded, err>>
       ELSE LET file == iter_from[pulled + 1]
                v == Verdict(sf, file)
            IN /\ pulled' = pulled + 1
               /\ yielded' = IF v = "yield" THEN Emit(yielded, file) ELSE yielded
               /\ pc' = CASE v = "yield" -> "yielded"
                          [] v = "raise" -> "raised"
                          [] OTHER -> "running"
               /\ err' = IF v = "raise" THEN "re.error" ELSE err
    /\ UNCHANGED <<sf, it_messages, lb, iter_from>>

Next == Anext \/ Iterate

Spec == Init /\ [][Next]_vars

\* ------------------------------------------------------------ properties

\* The variants the generator looks at.
IsRecord(f) == f.kind \in {"remote", "local"}

\* The first record of the source, once it has been pulled, and what became
\* of it: with one record pulled, yielded holds it or nothing.
First == iter_from[1]
FirstPulled == pulled = 1 /\ IsRecord(First)
Outcome == IF err = "re.error" THEN "raise"
           ELSE IF Len(yielded) = 1 THEN "yield" ELSE "drop"

Passes(f) == Verdict(sf, f) = "yield"

\* The filter with the one slot set, in the mode of sf.
One(slot, val) == Put(NoFilter(sf.in_filters.re), slot, val)

\* Every pattern of s compiles (matters in regex mode only).
PatternsOf(filter) ==
    UNION {{filter[k][i] : i \in 1..Len(filter[k])} : k \in StrKeys}
    \cup UNION {{filter.cattrs[i][j][2] : j \in 1..Len(filter.cattrs[i])} :
                   i \in 1..Len(filter.cattrs)}
HasInvalid(s) ==
    \E p \in PatternsOf(s.in_filters) \cup PatternsOf(s.ex_filters) : ~ValidRegex(p)
WellFormed(s) == s.in_filters.re => ~HasInvalid(s)

\* The record attribute a range key is compared with.
RangeValue(key, f) ==
    CASE key \in {"min_time", "max_time"} -> f.upload_time
      [] key \in {"min_size", "max_size"} -> file_size(f)
      [] OTHER -> f.id

\* Whether one entry of a set key matches the record.
EntryMatches(key, e, f) ==
    CASE key \in StrKeys -> in_func(sf.in_filters.re, e, f[key]) = "match"
      [] key \in EqKeys -> e = f[key]
      [] OTHER -> cattr_outcome(sf.in_filters.re, e, f) = "match"

\* C1: a record is yielded iff it is yielded under each filter that keeps
\* exactly one (include-or-exclude, key) slot of sf: the slots are independent
\* conjuncts.
C1_Independent ==
    FirstPulled =>
        ((Outcome = "yield") <=>
            \A slot \in ActiveSlots(sf) : Verdict(Only(sf, slot), First) = "yield")

C1_Witness ==
    /\ FirstPulled
    /\ Cardinality(ActiveSlots(sf)) = 2
    /\ Outcome = "drop"
    /\ \E a, b \in ActiveSlots(sf) :
          /\ a[1] = 0 /\ b[1] = 1
          /\ Verdict(Only(sf, a), First) = "yield"
          /\ Verdict(Only(sf, b), First) = "drop"

\* C2: what has been yielded is the subsequence of the pulled records that
\* pass, in source order, and at the end every record has been pulled.
C2_Subsequence ==
    /\ yielded = SelectSeq(SubSeq(iter_from, 1, pulled), Passes)
    /\ pc = "done" => pulled = Len(iter_from)

C2_Witness ==
    /\ pc = "done"
    /\ Len(iter_from) = 2
    /\ Len(yielded) = 2
    /\ yielded[1] # yielded[2]
    /\ ActiveSlots(sf) # {}

\* C3: with one include set key holding a non-empty list, a record is yielded
\* iff at least one entry matches it (cattrs included).
C3_IncludeIsOr ==
    \A key \in StrKeys \cup EqKeys \cup {"cattrs"} :
        LET L == sf.in_filters[key] IN
        (/\ FirstPulled
         /\ WellFormed(sf)
         /\ L # <<>>
         /\ sf = One(<<0, key>>, L)
         /\ (key = "cattrs" => First.has_cattrs))
        => ((Outcome = "yield") <=> \E i \in 1..Len(L) : EntryMatches(key, L[i], First))

\* C4: include.exported = b yields exactly the records with exported = b,
\* exclude.exported = b exactly those with exported # b, for b true and false.
C4_ExportedTriState ==
    \A b \in {"true", "false"} :
        /\ (FirstPulled /\ sf = One(<<0, "exported">>, b))
              => ((Outcome = "yield") <=> (First.exported = (b = "true")))
        /\ (FirstPulled /\ sf = One(<<1, "exported">>, b))
              => ((Outcome = "yield") <=> (First.exported # (b = "true")))

\* C5: with one include range key holding the bounds L, a record is yielded
\* iff its value is >= the last bound (min keys), <= the last bound (max keys).
C5_LastBoundInclusive ==
    \A key \in RangeKeys :
        LET L == sf.in_filters[key] IN
        (FirstPulled /\ L # <<>> /\ sf = One(<<0, key>>, L))
        => ((Outcome = "yield") <=>
               IF key \in {"min_time", "min_size", "min_id"}
               THEN RangeValue(key, First) >= L[Len(L)]
               ELSE RangeValue(key, First) <= L[Len(L)])

\* include.min_id = [a, b] with a <= id < b: the record is dropped.
C5_Witness ==
    LET L == sf.in_filters.min_id IN
    /\ FirstPulled
    /\ Len(L) = 2
    /\ sf = One(<<0, "min_id">>, L)
    /\ L[1] <= First.id /\ First.id < L[2]
    /\ Outcome = "drop"

\* C6: with one exclude slot set to V, a record is yielded iff it is not
\* yielded with the include slot of the same key set to V (for cattrs: a
\* record that has custom attributes).
C6_ExcludeComplementsInclude ==
    \A key \in Keys :
        LET V == sf.ex_filters[key] IN
        (/\ FirstPulled
         /\ WellFormed(sf)
         /\ V # Unset(key)
         /\ sf = One(<<1, key>>, V)
         /\ (key = "cattrs" => First.has_cattrs))
        => ((Outcome = "yield") <=> (Verdict(One(<<0, key>>, V), First) # "yield"))

\* C7: the source is pulled only while a request of the consumer is being
\* served, one record at a time, and when the k-th item is delivered the
\* records pulled are the source up to its k-th passing record.
C7_Lazy ==
    [][/\ (pc # "running" => pulled' = pulled)
       /\ (pulled' # pulled => pulled' = pulled + 1)
       /\ (pc' = "yielded" =>
              /\ pulled' >= 1
              /\ Verdict(sf', iter_from'[pulled']) = "yield"
              /\ Len(SelectSeq(SubSeq(iter_from', 1, pulled'),
                               LAMBDA f : Verdict(sf', f) = "yield")) = Len(yielded'))]_vars

\* The first item is delivered and a passing record is still in the source.
C7_Witness ==
    /\ pc = "yielded"
    /\ Len(yielded) = 1
    /\ pulled < Len(iter_from)
    /\ Passes(iter_from[pulled + 1])

\* C8: with neither it_messages nor lb, the generator ends with the ValueError
\* before anything is pulled or yielded.
C8_ValueError ==
    (~it_messages.given /\ ~lb.given /\ pc # "created")
    => (pc = "raised" /\ err = "ValueError" /\ pulled = 0 /\ yielded = <<>>)

StripCattrs(s) == [s EXCEPT !.in_filters.cattrs = <<>>, !.ex_filters.cattrs = <<>>]

\* C10: for a record without custom attributes the outcome (yield, drop or
\* raise) is the outcome under the filter with both cattrs lists emptied.
C10_NoCattrsNoTest ==
    (/\ FirstPulled
     /\ ~First.has_cattrs
     /\ (IsSet(sf, <<0, "cattrs">>) \/ IsSet(sf, <<1, "cattrs">>)))
    => Outcome = Verdict(StripCattrs(sf), First)

C10_Witness ==
    /\ FirstPulled
    /\ ~First.has_cattrs
    /\ IsSet(sf, <<0, "cattrs">>)
    /\ sf.in_filters.re
    /\ HasInvalid(StripCattrs(sf)) = FALSE
    /\ HasInvalid(sf)
    /\ Outcome = "yield"

====
